---- MODULE Spec2Model ----
(***************************************************************************)
(* Omni-Fix AR: the repair-session orchestrator of src/App.tsx.            *)
(*                                                                         *)
(* The React component is modelled as a state machine.  Every useState     *)
(* cell is a variable.  A handler runs atomically on the values of the     *)
(* render it was created in; the part of an async handler after an await   *)
(* (or inside setTimeout) is a separate action that runs later on the      *)
(* values its closure captured when the handler was invoked.  The          *)
(* continuations still to run are the entries of `pending`.                *)
(***************************************************************************)
EXTENDS Integers, Sequences, FiniteSets, Bags, TLC

\* ------------------------------------------------------------------ bounds
MaxSteps == 2          \* longest plan the oracle returns
MaxPending == 2        \* continuations outstanding at once
MaxRecorders == 2      \* MediaRecorders recording at once

\* ------------------------------------------------------------- value sets
NULL == "null"                         \* null of a string-valued cell
NoFrame == ""                          \* captureFrame() returning null / ""
Frames == {"AAAA", "BBBB"}             \* base64 payloads of two video frames
Feedbacks == {"loose screw"}
ComponentNames == {"Capacitor"}
ObjectNames == {"Lamp"}
Answers == {"Turn it clockwise"}

AppStates == {"INTRO", "CAMERA_READY", "ANALYZING", "REPAIR_GUIDE",
              "VERIFYING", "INSPECTING", "COMPLETED", "ERROR"}

NoPlan == [present |-> FALSE, objectName |-> "", steps |-> 0]
Plans == [present : {TRUE}, objectName : ObjectNames, steps : 1..MaxSteps]

PermissionDeniedMsg == "Camera/Mic access denied. Please enable permissions."
DiagnosisFailedMsg == "Gemini could not identify the issue. Please try again with better lighting."

\* The container box and the taps tried on it.
ContainerRect == [left |-> 10, top |-> 20, width |-> 200, height |-> 400]
Taps == {[clientX |-> 110, clientY |-> 220]}
NoPoint == [x |-> -1, y |-> -1]

\* Percentage coordinates of a tap (the inputs divide evenly, so the
\* floating-point quotient of the source is this integer).
ToPercent(tap, rect) ==
    [x |-> ((tap.clientX - rect.left) * 100) \div rect.width,
     y |-> ((tap.clientY - rect.top) * 100) \div rect.height]

DataUrl(base64) == "data:image/jpeg;base64," \o base64

\* ------------------------------------------------------------------ state
VARIABLES
    appState, repairPlan, currentStepIndex, errorMsg, cameraActive,
    capturedImage, assistantResponse, inspectorPoint, componentInfo,
    isListening,
    mediaRecorderRef,  \* "null", or the state of the recorder the ref holds
    orphaned,          \* recorders still recording that no ref holds
    audioChunksRef,    \* number of chunks in the buffer
    srcObject,     \* videoRef.current.srcObject holds the media stream
    pending,       \* continuations not yet run (a bag)
    mounted,       \* the component tree is still mounted
    last           \* history: the operation that produced this state

cells == <<appState, repairPlan, currentStepIndex, errorMsg, cameraActive,
           capturedImage, assistantResponse, inspectorPoint, componentInfo>>
voice == <<isListening, mediaRecorderRef, orphaned, audioChunksRef>>
vars == <<appState, repairPlan, currentStepIndex, errorMsg, cameraActive,
          capturedImage, assistantResponse, inspectorPoint, componentInfo,
          isListening, mediaRecorderRef, orphaned, audioChunksRef,
          srcObject, pending, mounted, last>>

\* A continuation: its kind, what its closure captured (plan, idx, frame)
\* and two history marks used to state the claims:
\*   stale - since it was issued the session was reset or the cursor moved
\*           (timer, verify); the inspector was closed on it (identify)
\*   cur   - it is the identify call of the inspection now open
Entry(kind, plan, idx, frame) ==
    [kind |-> kind, plan |-> plan, idx |-> idx, frame |-> frame,
     stale |-> FALSE, cur |-> FALSE]
NoEntry == Entry("none", NoPlan, 0, NoFrame)

\* `pending` is a bag of continuations: any of them may run next.
Add(bag, e) == bag (+) SetToBag({e})
Remove(bag, e) == bag (-) SetToBag({e})

RECURSIVE CopiesOf(_, _)
CopiesOf(bag, S) ==
    IF S = {} THEN 0
    ELSE LET e == CHOOSE x \in S : TRUE
         IN  CopiesIn(e, bag) + CopiesOf(bag, S \ {e})

\* The bag of f[e] for the e of `bag`.
MapBag(bag, f) ==
    LET S == BagToSet(bag)
    IN  [t \in {f[e] : e \in S} |-> CopiesOf(bag, {e \in S : f[e] = t})]

\* Marks every timer/verify continuation as overtaken.
MarkStale(bag) ==
    MapBag(bag, [e \in BagToSet(bag) |->
                    IF e.kind \in {"timer", "verify"}
                    THEN [e EXCEPT !.stale = TRUE] ELSE e])

\* The continuations as they stand once the cursor has (or has not) moved.
Overtake(bag) ==
    IF currentStepIndex' # currentStepIndex THEN MarkStale(bag) ELSE bag

OracleCalls == {"analyze", "verify", "identify"}
Outstanding(kinds) == {e \in BagToSet(pending) : e.kind \in kinds}
NumPending == BagCardinality(pending)

\* captureFrame(): a frame of the live video, or nothing when the refs, the
\* 2d context or the video's pixels are missing.
CaptureFrame == IF srcObject THEN Frames \cup {NoFrame} ELSE {NoFrame}

\* Rendering REPAIR_GUIDE reads repairPlan.steps[currentStepIndex].visualCue:
\* with the index outside the plan that throws and React unmounts the tree.
RenderThrows(st, plan, idx) ==
    st = "REPAIR_GUIDE" /\ plan.present /\ idx >= plan.steps

Render == mounted' = ~RenderThrows(appState', repairPlan', currentStepIndex')

\* History: the operation, the state it ran in, whether the continuation it
\* ran was overtaken, and the text the oracle returned.
Did(op, from, entry, text) ==
    last' = [op |-> op, from |-> from, stale |-> entry.stale, text |-> text]

\* What the rendered tree offers.
StepCardRendered == appState \in {"REPAIR_GUIDE", "VERIFYING"} /\ repairPlan.present
\* The step card (components/StepCard) is handed isVerifying and takes no
\* verify/next press while a verification runs.
StepCardEnabled == appState # "VERIFYING"
ResetOffered == StepCardRendered \/ appState \in {"COMPLETED", "ERROR"}
ResumeOffered ==
    appState = "INSPECTING" /\ inspectorPoint # NoPoint /\ componentInfo # NULL

Init ==
    /\ appState = "INTRO"
    /\ repairPlan = NoPlan
    /\ currentStepIndex = 0
    /\ errorMsg = NULL
    /\ cameraActive = FALSE
    /\ capturedImage = NULL
    /\ assistantResponse = NULL
    /\ inspectorPoint = NoPoint
    /\ componentInfo = NULL
    /\ isListening = FALSE
    /\ mediaRecorderRef = "null"
    /\ orphaned = 0
    /\ audioChunksRef = 0
    /\ srcObject = FALSE
    /\ pending = EmptyBag
    /\ mounted = TRUE
    /\ last = [op |-> "init", from |-> "INTRO", stale |-> FALSE, text |-> NULL]

\* ---------------------------------------------------------------- camera
startCamera ==
    /\ mounted /\ appState = "INTRO"
    /\ appState' = "CAMERA_READY"
    /\ cameraActive' = TRUE
    /\ pending' = Add(pending, Entry("getUserMedia", NoPlan, 0, NoFrame))
    /\ UNCHANGED <<repairPlan, currentStepIndex, errorMsg, capturedImage,
                   assistantResponse, inspectorPoint, componentInfo, srcObject>>
    /\ Did("startCamera", appState, NoEntry, NULL)
    /\ UNCHANGED voice
    /\ Render

getUserMediaResolved ==
    /\ mounted
    /\ \E e \in Outstanding({"getUserMedia"}) :
        /\ srcObject' = TRUE
        /\ pending' = Remove(pending, e)
        /\ Did("getUserMediaResolved", appState, e, NULL)
    /\ UNCHANGED cells
    /\ UNCHANGED voice
    /\ Render

getUserMediaRejected ==
    /\ mounted
    /\ \E e \in Outstanding({"getUserMedia"}) :
        /\ errorMsg' = PermissionDeniedMsg
        /\ appState' = "ERROR"
        /\ pending' = Remove(pending, e)
        /\ Did("getUserMediaRejected", appState, e, NULL)
    /\ UNCHANGED <<repairPlan, currentStepIndex, cameraActive, capturedImage,
                   assistantResponse, inspectorPoint, componentInfo, srcObject>>
    /\ UNCHANGED voice
    /\ Render

\* ------------------------------------------------------------------ scan
handleScan ==
    /\ mounted /\ appState = "CAMERA_READY"
    /\ \E base64 \in CaptureFrame :
        IF base64 = NoFrame
        THEN /\ UNCHANGED <<capturedImage, appState, pending>>
             /\ Did("scanNoFrame", appState, NoEntry, NULL)
        ELSE /\ NumPending < MaxPending
             /\ capturedImage' = DataUrl(base64)
             /\ appState' = "ANALYZING"
             /\ pending' = Add(pending, Entry("analyze", NoPlan, 0, base64))
             /\ Did("scan", appState, NoEntry, NULL)
    /\ UNCHANGED <<repairPlan, currentStepIndex, errorMsg, cameraActive,
                   assistantResponse, inspectorPoint, componentInfo, srcObject>>
    /\ UNCHANGED voice
    /\ Render

\* Variant: the plan result also clears the frozen frame.
analyzeResolvedClearsFrame ==
    /\ mounted
    /\ \E e \in Outstanding({"analyze"}), plan \in Plans :
        /\ repairPlan' = plan
        /\ currentStepIndex' = 0
        /\ capturedImage' = NULL
        /\ appState' = "REPAIR_GUIDE"
        /\ pending' = Overtake(Remove(pending, e))
        /\ Did("analyzeResolved", appState, e, NULL)
    /\ UNCHANGED <<errorMsg, cameraActive, assistantResponse,
                   inspectorPoint, componentInfo, srcObject>>
    /\ UNCHANGED voice
    /\ Render

\* analyzeImageAndCreatePlan() resolved with a plan.
analyzeResolved ==
    /\ mounted
    /\ \E e \in Outstanding({"analyze"}), plan \in Plans :
        /\ repairPlan' = plan
        /\ currentStepIndex' = 0
        /\ appState' = "REPAIR_GUIDE"
        /\ pending' = Overtake(Remove(pending, e))
        /\ Did("analyzeResolved", appState, e, NULL)
    /\ UNCHANGED <<errorMsg, cameraActive, capturedImage, assistantResponse,
                   inspectorPoint, componentInfo, srcObject>>
    /\ UNCHANGED voice
    /\ Render

\* analyzeImageAndCreatePlan() threw.
analyzeRejected ==
    /\ mounted
    /\ \E e \in Outstanding({"analyze"}) :
        /\ errorMsg' = DiagnosisFailedMsg
        /\ appState' = "ERROR"
        /\ pending' = Remove(pending, e)
        /\ Did("analyzeRejected", appState, e, NULL)
    /\ UNCHANGED <<repairPlan, currentStepIndex, cameraActive, capturedImage,
                   assistantResponse, inspectorPoint, componentInfo, srcObject>>
    /\ UNCHANGED voice
    /\ Render

\* ---------------------------------------------------------- verification
\* handleNextStep() of the render that saw (plan, idx): what it sets.
NextStepSets(plan, idx) ==
    /\ assistantResponse' = NULL
    /\ IF ~plan.present
       THEN UNCHANGED <<currentStepIndex, capturedImage, appState>>
       ELSE IF idx < plan.steps - 1
            THEN /\ currentStepIndex' = currentStepIndex + 1
                 /\ capturedImage' = NULL
                 /\ appState' = "REPAIR_GUIDE"
            ELSE /\ appState' = "COMPLETED"
                 /\ UNCHANGED <<currentStepIndex, capturedImage>>

\* Variant: the feedback shown without its label.
VerificationInfoBare(feedback) == feedback

\* The text shown for a verification that did not pass.
VerificationInfo(feedback) == "Verification Info: " \o feedback

\* Variant: the live feed is kept after a failed verification.
CheckedImageLive(base64) == NULL

\* The image shown for a verification that did not pass.
CheckedImage(base64) == DataUrl(base64)

\* The synchronous part of handleVerifyStep(): starts the settle timer.
handleVerifyStep ==
    /\ mounted /\ StepCardRendered /\ StepCardEnabled
    /\ NumPending < MaxPending
    /\ capturedImage' = NULL
    /\ appState' = "VERIFYING"
    /\ pending' = Add(pending, Entry("timer", repairPlan, currentStepIndex,
                                      NoFrame))
    /\ Did("handleVerifyStep", appState, NoEntry, NULL)
    /\ UNCHANGED <<repairPlan, currentStepIndex, errorMsg, cameraActive,
                   assistantResponse, inspectorPoint, componentInfo, srcObject>>
    /\ UNCHANGED voice
    /\ Render

\* The settle timer fired: capture, then call verifyRepairStep().
settleTimerFired ==
    /\ mounted
    /\ \E e \in Outstanding({"timer"}), base64 \in CaptureFrame :
        IF base64 = NoFrame
        THEN /\ appState' = "REPAIR_GUIDE"
             /\ pending' = Remove(pending, e)
             /\ Did("timerNoFrame", appState, e, NULL)
        ELSE IF e.plan.present
        THEN LET call == [e EXCEPT !.kind = "verify", !.frame = base64]
             IN  /\ pending' = Add(Remove(pending, e), call)
                 /\ Did("timerCaptured", appState, call, NULL)
                 /\ UNCHANGED appState
        ELSE /\ pending' = Remove(pending, e)
             /\ Did("timerNoPlan", appState, e, NULL)
             /\ UNCHANGED appState
    /\ UNCHANGED <<repairPlan, currentStepIndex, errorMsg, cameraActive,
                   capturedImage, assistantResponse, inspectorPoint,
                   componentInfo, srcObject>>
    /\ UNCHANGED voice
    /\ Render

\* verifyRepairStep() resolved with completed == true.
verifyCompleted ==
    /\ mounted
    /\ \E e \in Outstanding({"verify"}) :
        /\ NextStepSets(e.plan, e.idx)
        /\ pending' = Overtake(Remove(pending, e))
        /\ Did("verifyCompleted", appState, e, NULL)
    /\ UNCHANGED <<repairPlan, errorMsg, cameraActive, inspectorPoint,
                   componentInfo, srcObject>>
    /\ UNCHANGED voice
    /\ Render

\* verifyRepairStep() resolved with completed == false.
verifyFeedback ==
    /\ mounted
    /\ \E e \in Outstanding({"verify"}), feedback \in Feedbacks :
        /\ assistantResponse' = VerificationInfo(feedback)
        /\ appState' = "REPAIR_GUIDE"
        /\ capturedImage' = CheckedImage(e.frame)
        /\ pending' = Remove(pending, e)
        /\ Did("verifyFeedback", appState, e, feedback)
    /\ UNCHANGED <<repairPlan, currentStepIndex, errorMsg, cameraActive,
                   inspectorPoint, componentInfo, srcObject>>
    /\ UNCHANGED voice
    /\ Render

\* verifyRepairStep() threw: nothing catches it inside the timer callback.
verifyRejected ==
    /\ mounted
    /\ \E e \in Outstanding({"verify"}) :
        /\ pending' = Remove(pending, e)
        /\ Did("verifyRejected", appState, e, NULL)
    /\ UNCHANGED <<cells, srcObject>>
    /\ UNCHANGED voice
    /\ Render

\* The user's next/skip on the step card.
handleNextStep ==
    /\ mounted /\ StepCardRendered /\ StepCardEnabled
    /\ NextStepSets(repairPlan, currentStepIndex)
    /\ pending' = Overtake(pending)
    /\ Did("handleNextStep", appState, NoEntry, NULL)
    /\ UNCHANGED <<repairPlan, errorMsg, cameraActive, inspectorPoint,
                   componentInfo, srcObject>>
    /\ UNCHANGED voice
    /\ Render

\* -------------------------------------------------------------- inspector
\* Variant: the gate without its test of appState.
TapAcceptedAnyState == repairPlan.present

\* The gate at the top of handleVideoClick().
TapAccepted == appState = "REPAIR_GUIDE" /\ repairPlan.present

\* A new inspection's identify call; the older ones are no longer current.
OpenInspection(bag, e) ==
    Add(MapBag(bag, [x \in BagToSet(bag) |-> [x EXCEPT !.cur = FALSE]]),
        [e EXCEPT !.cur = TRUE])

\* The inspector was closed on the identify call of the open inspection.
CloseInspection(bag) ==
    MapBag(bag, [e \in BagToSet(bag) |->
                    IF e.kind = "identify" /\ e.cur
                    THEN [e EXCEPT !.stale = TRUE] ELSE e])

\* A tap or click on the video container.
handleVideoClick ==
    /\ mounted
    /\ IF ~TapAccepted
       THEN /\ UNCHANGED <<inspectorPoint, appState, capturedImage, pending>>
            /\ Did("tapIgnored", appState, NoEntry, NULL)
       ELSE \E tap \in Taps, base64 \in CaptureFrame :
            /\ inspectorPoint' = ToPercent(tap, ContainerRect)
            /\ IF base64 = NoFrame
               THEN /\ appState' = "REPAIR_GUIDE"
                    /\ UNCHANGED <<capturedImage, pending>>
                    /\ Did("tapNoFrame", appState, NoEntry, NULL)
               ELSE /\ NumPending < MaxPending
                    /\ appState' = "INSPECTING"
                    /\ capturedImage' = DataUrl(base64)
                    /\ pending' = OpenInspection(pending,
                                      Entry("identify", NoPlan, 0, NoFrame))
                    /\ Did("tap", appState, NoEntry, NULL)
    /\ UNCHANGED <<repairPlan, currentStepIndex, errorMsg, cameraActive,
                   assistantResponse, componentInfo, srcObject>>
    /\ UNCHANGED voice
    /\ Render

\* identifyComponentAtPoint() resolved.
identifyResolved ==
    /\ mounted
    /\ \E e \in Outstanding({"identify"}), info \in ComponentNames :
        /\ componentInfo' = info
        /\ pending' = Remove(pending, e)
        /\ Did("identifyResolved", appState, e, info)
    /\ UNCHANGED <<appState, repairPlan, currentStepIndex, errorMsg, cameraActive,
                   capturedImage, assistantResponse, inspectorPoint, srcObject>>
    /\ UNCHANGED voice
    /\ Render

\* identifyComponentAtPoint() threw: handleVideoClick() catches nothing.
identifyRejected ==
    /\ mounted
    /\ \E e \in Outstanding({"identify"}) :
        /\ pending' = Remove(pending, e)
        /\ Did("identifyRejected", appState, e, NULL)
    /\ UNCHANGED <<cells, srcObject>>
    /\ UNCHANGED voice
    /\ Render

\* "Resume Repair" on the info card.
closeInspector ==
    /\ mounted /\ ResumeOffered
    /\ inspectorPoint' = NoPoint
    /\ componentInfo' = NULL
    /\ capturedImage' = NULL
    /\ appState' = "REPAIR_GUIDE"
    /\ pending' = CloseInspection(pending)
    /\ Did("closeInspector", appState, NoEntry, NULL)
    /\ UNCHANGED <<repairPlan, currentStepIndex, errorMsg, cameraActive,
                   assistantResponse, srcObject>>
    /\ UNCHANGED voice
    /\ Render

\* ------------------------------------------------------------------ voice
\* The step card is handed startListening/stopListening and calls them while
\* it is rendered, a second start before a stop included.
AskOffered == StepCardRendered

\* MediaRecorders in state "recording".
ActiveRecordings ==
    orphaned + (IF mediaRecorderRef = "recording" THEN 1 ELSE 0)

startListening ==
    /\ mounted /\ AskOffered
    /\ ActiveRecordings < MaxRecorders
    /\ assistantResponse' = "Listening..."
    /\ isListening' = TRUE
    /\ IF ~srcObject
       THEN /\ UNCHANGED <<mediaRecorderRef, orphaned, audioChunksRef>>
            /\ Did("listenNoStream", appState, NoEntry, NULL)
       ELSE /\ mediaRecorderRef' = "recording"
            /\ orphaned' = ActiveRecordings
            /\ audioChunksRef' = 0
            /\ Did("startListening", appState, NoEntry, NULL)
    /\ UNCHANGED <<appState, repairPlan, currentStepIndex, errorMsg, cameraActive,
                   capturedImage, inspectorPoint, componentInfo, srcObject,
                   pending>>
    /\ Render

\* stopListening(): stop() on a recorder that is not recording throws and the
\* handler ends there; otherwise the recorder delivers its data and then its
\* stop event later.
stopListening ==
    /\ mounted /\ AskOffered
    /\ IF mediaRecorderRef # "recording"
       THEN /\ UNCHANGED <<isListening, assistantResponse, mediaRecorderRef,
                           pending>>
            /\ Did(IF mediaRecorderRef = "null" THEN "stopNoRecorder"
                   ELSE "stopThrows", appState, NoEntry, NULL)
       ELSE /\ NumPending < MaxPending
            /\ mediaRecorderRef' = "inactive"
            /\ isListening' = FALSE
            /\ assistantResponse' = "Thinking..."
            /\ pending' = Add(pending, Entry("recorderStop", repairPlan,
                                             currentStepIndex, NoFrame))
            /\ Did("stopListening", appState, NoEntry, NULL)
    /\ UNCHANGED <<appState, repairPlan, currentStepIndex, errorMsg, cameraActive,
                   capturedImage, inspectorPoint, componentInfo, srcObject,
                   orphaned, audioChunksRef>>
    /\ Render

\* The stopped recorder's dataavailable and stop events, and the FileReader's
\* loadend: the chunk is pushed, the clip encoded, a context frame captured
\* and, with a frame and a plan in the closure, the question is asked.
recorderStopped ==
    /\ mounted
    /\ \E e \in Outstanding({"recorderStop"}), base64 \in CaptureFrame :
        /\ audioChunksRef' = audioChunksRef + 1
        /\ IF base64 # NoFrame /\ e.plan.present
           THEN LET call == [e EXCEPT !.kind = "ask", !.frame = base64]
                IN  /\ pending' = Add(Remove(pending, e), call)
                    /\ Did("asked", appState, call, NULL)
           ELSE /\ pending' = Remove(pending, e)
                /\ Did("notAsked", appState, e, NULL)
    /\ UNCHANGED <<cells, srcObject, isListening, mediaRecorderRef, orphaned>>
    /\ Render

\* askRepairAssistant() resolved.
askResolved ==
    /\ mounted
    /\ \E e \in Outstanding({"ask"}), response \in Answers :
        /\ assistantResponse' = response
        /\ pending' = Remove(pending, e)
        /\ Did("askResolved", appState, e, response)
    /\ UNCHANGED <<appState, repairPlan, currentStepIndex, errorMsg, cameraActive,
                   capturedImage, inspectorPoint, componentInfo, srcObject>>
    /\ UNCHANGED voice
    /\ Render

\* askRepairAssistant() rejected: nothing catches it.
askRejected ==
    /\ mounted
    /\ \E e \in Outstanding({"ask"}) :
        /\ pending' = Remove(pending, e)
        /\ Did("askRejected", appState, e, NULL)
    /\ UNCHANGED <<cells, srcObject>>
    /\ UNCHANGED voice
    /\ Render

\* ------------------------------------------------------------------ reset
\* Variant: resetApp() without setErrorMsg(null).
resetAppKeepsError ==
    /\ mounted /\ ResetOffered
    /\ repairPlan' = NoPlan
    /\ currentStepIndex' = 0
    /\ capturedImage' = NULL
    /\ assistantResponse' = NULL
    /\ appState' = "CAMERA_READY"
    /\ pending' = MarkStale(pending)
    /\ Did("resetApp", appState, NoEntry, NULL)
    /\ UNCHANGED <<errorMsg, cameraActive, inspectorPoint, componentInfo, srcObject>>
    /\ UNCHANGED voice
    /\ Render

\* Variant: resetApp() without setCapturedImage(null).
resetAppKeepsFrame ==
    /\ mounted /\ ResetOffered
    /\ repairPlan' = NoPlan
    /\ currentStepIndex' = 0
    /\ errorMsg' = NULL
    /\ assistantResponse' = NULL
    /\ appState' = "CAMERA_READY"
    /\ pending' = MarkStale(pending)
    /\ Did("resetApp", appState, NoEntry, NULL)
    /\ UNCHANGED <<capturedImage, cameraActive, inspectorPoint, componentInfo,
                   srcObject>>
    /\ UNCHANGED voice
    /\ Render

resetApp ==
    /\ mounted /\ ResetOffered
    /\ repairPlan' = NoPlan
    /\ currentStepIndex' = 0
    /\ capturedImage' = NULL
    /\ errorMsg' = NULL
    /\ assistantResponse' = NULL
    /\ appState' = "CAMERA_READY"
    /\ pending' = MarkStale(pending)
    /\ Did("resetApp", appState, NoEntry, NULL)
    /\ UNCHANGED <<cameraActive, inspectorPoint, componentInfo, srcObject>>
    /\ UNCHANGED voice
    /\ Render

\* ================================================================ claims
TimerOps == {"timerNoFrame", "timerCaptured", "timerNoPlan"}
VerifyOps == {"verifyCompleted", "verifyFeedback", "verifyRejected"}
TapOps == {"tap", "tapNoFrame", "tapIgnored"}
NumOf(bag, kinds) == CopiesOf(bag, {e \in BagToSet(bag) : e.kind \in kinds})

\* C1: whenever a plan is set, 0 <= currentStepIndex < len(plan.steps).
C1_CursorInBounds ==
    repairPlan.present =>
        (0 <= currentStepIndex /\ currentStepIndex < repairPlan.steps)

\* C2: at most one oracle call among plan-from-image, verify-step and
\* identify-component is outstanding at any time.
C2_OneOracleCall == NumOf(pending, OracleCalls) <= 1

\* C3: a settle timer or verify result whose verification was overtaken (the
\* session was reset or the cursor moved since it was issued) changes none of
\* state, plan, cursor, frozen frame and assistant text.
C3_StaleVerifyDiscarded ==
    [][(last'.op \in TimerOps \cup VerifyOps /\ last'.stale) =>
         UNCHANGED <<appState, repairPlan, currentStepIndex, capturedImage,
                     assistantResponse>>]_vars

\* C4: an identify result arriving after the inspector was closed on its
\* inspection is not applied: state and componentInfo stay as they are.
C4_ClosedIdentifyDiscarded ==
    [][(last'.op = "identifyResolved" /\ last'.stale) =>
         UNCHANGED <<appState, componentInfo>>]_vars

\* C5: a verification started at cursor i that comes back completed ends in
\* COMPLETED with the cursor still i when i is the last index, and otherwise
\* with the cursor at exactly i + 1 in REPAIR_GUIDE.
C5_CompletedAdvancesFromIssueIndex ==
    [][last'.op = "verifyCompleted" =>
         \E e \in Outstanding({"verify"}) :
            /\ pending' = Overtake(Remove(pending, e))
            /\ IF e.idx = e.plan.steps - 1
               THEN appState' = "COMPLETED" /\ currentStepIndex' = e.idx
               ELSE appState' = "REPAIR_GUIDE" /\ currentStepIndex' = e.idx + 1]_vars

\* C6: a verification that comes back not completed leaves cursor and plan
\* alone, returns to REPAIR_GUIDE and freezes the very frame it sent.
C6_FeedbackFreezesCheckedFrame ==
    [][last'.op = "verifyFeedback" =>
         /\ currentStepIndex' = currentStepIndex
         /\ repairPlan' = repairPlan
         /\ appState' = "REPAIR_GUIDE"
         /\ \E e \in Outstanding({"verify"}) :
              /\ pending' = Remove(pending, e)
              /\ capturedImage' = "data:image/jpeg;base64," \o e.frame]_vars

C6_Witness ==
    last.op = "verifyFeedback" /\ appState = "REPAIR_GUIDE" /\ capturedImage # NULL

C8_ResetFromError ==
    [][(last'.op = "resetApp" /\ appState = "ERROR") =>
         /\ errorMsg' = NULL
         /\ repairPlan' = NoPlan
         /\ currentStepIndex' = 0
         /\ capturedImage' = NULL
         /\ assistantResponse' = NULL
         /\ appState' = "CAMERA_READY"
         /\ srcObject' = srcObject
         /\ NumOf(pending', {"getUserMedia"}) = NumOf(pending, {"getUserMedia"})]_vars

C8_Witness ==
    last.op = "resetApp" /\ last.from = "ERROR" /\ appState = "CAMERA_READY"

\* C9: every step other than a reset leaves the cursor where it is or
\* increases it.
C9_CursorNeverDecreases ==
    [][last'.op # "resetApp" => currentStepIndex' >= currentStepIndex]_vars

\* C10: a tap in any state other than REPAIR_GUIDE is ignored: it captures
\* nothing, calls nothing and changes no cell.
C10_TapIgnoredOutsideGuide ==
    [][(last'.op \in TapOps /\ appState # "REPAIR_GUIDE") =>
         /\ last'.op = "tapIgnored"
         /\ UNCHANGED <<appState, repairPlan, currentStepIndex, capturedImage,
                        inspectorPoint, componentInfo, pending>>]_vars

C10_Witness ==
    last.op = "tapIgnored" /\ appState = "VERIFYING" /\ repairPlan.present

C12_TerminalUntilReset ==
    [][(appState \in {"COMPLETED", "ERROR"} /\ last'.op # "resetApp") =>
         appState' = appState]_vars

\* The state changes the specification lists (section 4.1).
ListedChanges ==
    {<<"INTRO", "CAMERA_READY">>, <<"CAMERA_READY", "ANALYZING">>,
     <<"ANALYZING", "REPAIR_GUIDE">>,
     <<"REPAIR_GUIDE", "VERIFYING">>, <<"VERIFYING", "REPAIR_GUIDE">>,
     <<"REPAIR_GUIDE", "INSPECTING">>, <<"INSPECTING", "REPAIR_GUIDE">>,
     <<"REPAIR_GUIDE", "COMPLETED">>}
    \cup {<<st, "ERROR">> : st \in AppStates}

\* C13: every change of state is a listed one or a reset from ERROR or
\* COMPLETED to CAMERA_READY; a reset takes effect from no other state and
\* INTRO is never re-entered.
C13_OnlyListedChanges ==
    [][appState' # appState =>
         IF last'.op = "resetApp"
         THEN appState \in {"ERROR", "COMPLETED"} /\ appState' = "CAMERA_READY"
         ELSE <<appState, appState'>> \in ListedChanges]_vars
\* The one getUserMedia() call of startCamera was made and rejected.
AcquisitionFailed ==
    cameraActive /\ ~srcObject /\ NumOf(pending, {"getUserMedia"}) = 0

\* C14: a failed stream acquisition puts the session in ERROR with the
\* permission-denied message, and from then on the session is never in
\* CAMERA_READY while it holds no stream.
C14_NoStreamNeverReady ==
    AcquisitionFailed =>
        /\ appState # "CAMERA_READY"
        /\ last.op = "getUserMediaRejected" =>
              (appState = "ERROR" /\ errorMsg = PermissionDeniedMsg)

\* C15: when the plan call fails the state is ERROR with an error message,
\* there is no plan, and the frozen frame is the frame that call was sent.
C15_PlanFailureKeepsFrame ==
    [][last'.op = "analyzeRejected" =>
         /\ appState' = "ERROR"
         /\ errorMsg' # NULL
         /\ repairPlan' = NoPlan
         /\ \E e \in Outstanding({"analyze"}) :
              /\ pending' = Remove(pending, e)
              /\ capturedImage' = "data:image/jpeg;base64," \o e.frame]_vars

\* C16: a verify-step call that fails puts the session in ERROR with an
\* error message set.
C16_VerifyFailureIsError ==
    [][last'.op = "verifyRejected" =>
         (appState' = "ERROR" /\ errorMsg' # NULL)]_vars

\* C17: outside INSPECTING the inspector point and the component info are
\* both unset.
C17_InspectorOnlyWhileInspecting ==
    appState # "INSPECTING" =>
        (inspectorPoint = NoPoint /\ componentInfo = NULL)

\* C18: while a plan call is outstanding the frozen frame is set and is the
\* frame sent in that call.
C18_FrozenFrameIsFrameSent ==
    \A e \in Outstanding({"analyze"}) :
        capturedImage = "data:image/jpeg;base64," \o e.frame

\* C20: in CAMERA_READY there is no frozen frame.
C20_NoFrozenFrameWhenReady ==
    appState = "CAMERA_READY" => capturedImage = NULL

\* A late settle timer of a reset verification ran in CAMERA_READY and its
\* verify call is now in flight.
C20_Witness ==
    /\ appState = "CAMERA_READY" /\ capturedImage = NULL
    /\ last.op = "timerCaptured" /\ last.stale /\ last.from = "CAMERA_READY"
    /\ NumOf(pending, {"verify"}) > 0
\* C19: at most one recording is active at any time, and a startListening()
\* while a recording is active leaves the recorder held, the recorders
\* running and the chunk buffer as they are.
C19_SecondStartRejected ==
    [][/\ ActiveRecordings' <= 1
       /\ (last'.op \in {"startListening", "listenNoStream"}
             /\ ActiveRecordings >= 1) =>
               UNCHANGED <<mediaRecorderRef, orphaned, audioChunksRef>>]_vars
\* C21: in REPAIR_GUIDE, VERIFYING, INSPECTING and COMPLETED a plan is set.
C21_PlanSetInGuideStates ==
    appState \in {"REPAIR_GUIDE", "VERIFYING", "INSPECTING", "COMPLETED"} =>
        repairPlan.present
\* A step the user takes on what the rendered tree offers.
UserStep ==
    \/ startCamera \/ handleScan \/ handleVerifyStep \/ handleNextStep
    \/ handleVideoClick \/ closeInspector \/ resetApp

\* C22: whenever no acquisition, timer or oracle callback is pending, the
\* user has a step that changes the session's cells.
C22_NeverStuck ==
    NumPending = 0 => ENABLED (UserStep /\ cells' # cells)

Next ==
    \/ startCamera \/ getUserMediaResolved \/ getUserMediaRejected
    \/ handleScan \/ analyzeResolved \/ analyzeRejected
    \/ handleVerifyStep \/ settleTimerFired
    \/ verifyCompleted \/ verifyFeedback \/ verifyRejected
    \/ handleNextStep
    \/ handleVideoClick \/ identifyResolved \/ identifyRejected
    \/ closeInspector \/ resetApp

Spec == Init /\ [][Next]_vars

\* The session with the voice pipeline: the steps that reach and leave the
\* guide, and the assistant's handlers and callbacks.
VoiceNext ==
    \/ startCamera \/ getUserMediaResolved
    \/ handleScan \/ analyzeResolved
    \/ handleNextStep \/ resetApp
    \/ startListening \/ stopListening \/ recorderStopped
    \/ askResolved \/ askRejected

VoiceSpec == Init /\ [][VoiceNext]_vars
====
